---- MODULE Spec2Model ----
(***************************************************************************)
(* Model of the reinforcement-learning orchestration code:                 *)
(*   src/src/agents/agent.py        generic Agent (observe / update)       *)
(*   src/src/agents/dqn/agent.py    DQNAgent (gated update, epsilon decay) *)
(*   src/src/agents/actors.py       FeedForwardActor.select_action         *)
(*   src/src/agents/vpg/agent.py    PGAgent's policy closure               *)
(*   src/src/infrastructure/logging.py  NullLogger / DQNAgentLogger        *)
(*   src/src/agents/vpg/learning.py PGLearner (returns, normalisation,    *)
(*                                  loss, optimisation step)               *)
(*                                                                         *)
(* Execution is single-threaded: a handler runs to completion before the   *)
(* next call starts.  Agent.update is split at its loop iterations (pc)    *)
(* so that the state between two Learner steps can be talked about; no     *)
(* other call interleaves with it.                                         *)
(*                                                                         *)
(* Numbers: observations_per_step is a float in the code; it is kept as an *)
(* exact fraction num/den.  Epsilon is kept in hundredths (100 = 1.0).     *)
(* The learner's tensors are matrices of exact rationals; float32         *)
(* rounding is outside the model.                                          *)
(***************************************************************************)
EXTENDS Integers, Sequences, FiniteSets, TLC

VARIABLES
    \* ---- generic Agent (agents/agent.py) ----
    min_observations,       \* self.min_observations
    observations_per_step,  \* self.observations_per_step (None or a fraction)
    num_observations,       \* self._num_observations
    buffer_kind,            \* which Buffer collaborator is attached
    buffer_client,          \* the actor's buffer_client: None, or the agent's buffer
    buffer_len,             \* len(self.buffer)
    pc,                     \* position inside Agent.update: "idle" | "loop"
    num_steps,              \* local num_steps of the running/last update()
    steps_done,             \* Learner.step invocations of the running/last update()
    entry,                  \* counter and buffer length when update() was entered
    result,                 \* outcome of the last completed call
    \* ---- DQNAgent (agents/dqn/agent.py) ----
    dqn,                    \* the DQNAgent instance and its collaborators
    dqn_result,             \* outcome of the last DQNAgent call
    \* ---- logger calls (infrastructure/logging.py) ----
    lg,                     \* the logger bound by DQNAgent.__init__ and its state
    \* ---- PG policy / select_action ----
    sel,                    \* last select_action call: inputs, distribution, action
    \* ---- PGLearner (agents/vpg/learning.py) ----
    pg                      \* inputs and outputs of the learner function under study

vars == <<min_observations, observations_per_step, num_observations, buffer_kind,
          buffer_client,
          buffer_len, pc, num_steps, steps_done, entry, result,
          dqn, dqn_result, lg, sel, pg>>

agentVars == <<min_observations, observations_per_step, num_observations,
               buffer_kind, buffer_client, buffer_len, pc, num_steps, steps_done,
               entry, result>>

(***************************************************************************)
(* Bounds of the model.                                                    *)
(***************************************************************************)
MaxObs == 7         \* observe() calls between two resets of the counter
MaxBuf == 8         \* largest buffer length explored
MaxMinObs == 5      \* largest min_observations explored

(***************************************************************************)
(* Python values.                                                          *)
(***************************************************************************)
PyNone == [kind |-> "None", val |-> 0]
PyInt(i) == [kind |-> "int", val |-> i]
PyBool(b) == [kind |-> "bool", val |-> IF b THEN 1 ELSE 0]

\* observations_per_step: None, or the fraction num/den (den >= 1).
OpsNone == [none |-> TRUE, num |-> 0, den |-> 1]
Frac(n, d) == [none |-> FALSE, num |-> n, den |-> d]

\* The values explored: None (PGAgent), 0 (the constructor default), 0.5, 1, 2, 3.
OpsValues == {OpsNone, Frac(0, 1), Frac(1, 2), Frac(1, 1), Frac(2, 1), Frac(3, 1)}

\* int(x): truncation toward zero of the quotient a / b, b > 0.
PyIntTrunc(a, b) == IF a >= 0 THEN a \div b ELSE -((-a) \div b)

(***************************************************************************)
(* Buffer collaborator (not part of the sources at hand): a flat replay    *)
(* pool grows by one per added transition; an episode store grows by one   *)
(* per closed episode.  draw() of the flat pool samples without removing;  *)
(* draw() of the episode store may hand the stored episodes over.          *)
(***************************************************************************)
BufferKinds == {"replay", "episode"}

BufferAfterAdd(kind, len, is_last) ==
    IF kind = "replay" \/ is_last THEN len + 1 ELSE len

\* FeedForwardActor.__init__ (actors.py:20, 37): buffer_client is None by
\* default, or the buffer the agent also holds (vpg/agent.py:70).
BufferClients == {"None", "buffer"}

\* FeedForwardActor.observe (actors.py:70-73): the transition is added only
\* when the actor has a buffer client.
ActorObserve(client, kind, len, is_last) ==
    IF client # "None" THEN BufferAfterAdd(kind, len, is_last) ELSE len

BufferAfterDraw(kind, len) ==
    IF kind = "episode" THEN {0, len} ELSE {len}

(***************************************************************************)
(* Agent._calc_num_steps (agent.py:63-68).  Returns a record: either the   *)
(* number of steps, or the exception raised by the division.               *)
(***************************************************************************)
CalcNumSteps_Ceil(len, minobs, ops, n) ==
    IF len < minobs THEN [raised |-> FALSE, steps |-> 0]
    ELSE IF ops.none THEN [raised |-> FALSE, steps |-> 1]
    ELSE IF ops.num = 0 THEN [raised |-> TRUE, steps |-> 0]
    ELSE [raised |-> FALSE, steps |-> (n * ops.den + ops.num - 1) \div ops.num]

\* A variant that treats 0 like None (`if not self.observations_per_step`).
CalcNumSteps_ZeroAsNone(len, minobs, ops, n) ==
    IF len < minobs THEN [raised |-> FALSE, steps |-> 0]
    ELSE IF ops.none \/ ops.num = 0 THEN [raised |-> FALSE, steps |-> 1]
    ELSE [raised |-> FALSE, steps |-> PyIntTrunc(n * ops.den, ops.num)]

CalcNumSteps(len, minobs, ops, n) ==
    IF len < minobs THEN [raised |-> FALSE, steps |-> 0]
    ELSE IF ops.none THEN [raised |-> FALSE, steps |-> 1]
    ELSE IF ops.num = 0 THEN [raised |-> TRUE, steps |-> 0]   \* ZeroDivisionError
    ELSE [raised |-> FALSE, steps |-> PyIntTrunc(n * ops.den, ops.num)]

(***************************************************************************)
(* Agent.__init__ (agent.py:27-35): any configuration, counter 0.  The     *)
(* buffer handed to the constructor may already hold data.                 *)
(***************************************************************************)
AgentInit ==
    /\ min_observations \in 0..MaxMinObs
    /\ observations_per_step \in OpsValues
    /\ num_observations = 0
    /\ buffer_kind \in BufferKinds
    /\ buffer_client \in BufferClients
    /\ buffer_len \in 0..MaxBuf
    /\ pc = "idle"
    /\ num_steps = 0
    /\ steps_done = 0
    /\ entry = [n |-> 0, len |-> 0]
    /\ result = [call |-> "none", outcome |-> "return", value |-> PyNone]

\* Agent.observe (agent.py:45-48): count, then delegate to the actor, which
\* adds the transition to its buffer client if it has one (actors.py:70-73).
Observe(is_last) ==
    /\ pc = "idle"
    /\ num_observations < MaxObs
    /\ ActorObserve(buffer_client, buffer_kind, buffer_len, is_last) <= MaxBuf
    /\ num_observations' = num_observations + 1
    /\ buffer_len' = ActorObserve(buffer_client, buffer_kind, buffer_len, is_last)
    /\ result' = [call |-> "observe", outcome |-> "return", value |-> PyNone]
    /\ UNCHANGED <<min_observations, observations_per_step, buffer_kind, buffer_client, pc,
                   num_steps, steps_done, entry>>
    /\ UNCHANGED <<dqn, dqn_result, lg, sel, pg>>

AgentObserve == \E is_last \in BOOLEAN : Observe(is_last)

\* Agent.update, line 55: num_steps = self._calc_num_steps().
UpdateBegin ==
    /\ pc = "idle"
    /\ LET r == CalcNumSteps(buffer_len, min_observations,
                             observations_per_step, num_observations)
       IN IF r.raised
          THEN /\ result' = [call |-> "update", outcome |-> "ZeroDivisionError",
                             value |-> PyNone]
               /\ UNCHANGED <<pc, num_steps, steps_done, entry>>
          ELSE /\ pc' = "loop"
               /\ num_steps' = r.steps
               /\ steps_done' = 0
               /\ entry' = [n |-> num_observations, len |-> buffer_len]
               /\ UNCHANGED result
    /\ UNCHANGED <<min_observations, observations_per_step, num_observations,
                   buffer_kind, buffer_client, buffer_len>>
    /\ UNCHANGED <<dqn, dqn_result, lg, sel, pg>>

\* Agent.update, lines 56-58: one iteration of the loop.
UpdateStep_NoReset ==
    /\ pc = "loop"
    /\ steps_done < num_steps
    /\ buffer_len' \in BufferAfterDraw(buffer_kind, buffer_len)
    /\ steps_done' = steps_done + 1
    /\ UNCHANGED <<min_observations, observations_per_step, num_observations,
                   buffer_kind, buffer_client, pc, num_steps, entry, result>>
    /\ UNCHANGED <<dqn, dqn_result, lg, sel, pg>>

UpdateStep ==
    /\ pc = "loop"
    /\ steps_done < num_steps
    /\ buffer_len' \in BufferAfterDraw(buffer_kind, buffer_len)   \* learner.step(buffer)
    /\ num_observations' = 0
    /\ steps_done' = steps_done + 1
    /\ UNCHANGED <<min_observations, observations_per_step, buffer_kind, buffer_client, pc,
                   num_steps, entry, result>>
    /\ UNCHANGED <<dqn, dqn_result, lg, sel, pg>>

\* Agent.update falls off its end: the loop is exhausted and the call
\* returns None (there is no return statement, agent.py:50-61).
UpdateReturn_Count ==
    /\ pc = "loop"
    /\ steps_done = num_steps
    /\ pc' = "idle"
    /\ result' = [call |-> "update", outcome |-> "return", value |-> PyInt(steps_done)]
    /\ UNCHANGED <<min_observations, observations_per_step, num_observations,
                   buffer_kind, buffer_client, buffer_len, num_steps, steps_done, entry>>
    /\ UNCHANGED <<dqn, dqn_result, lg, sel, pg>>

UpdateReturn ==
    /\ pc = "loop"
    /\ steps_done = num_steps
    /\ pc' = "idle"
    /\ result' = [call |-> "update", outcome |-> "return", value |-> PyNone]
    /\ UNCHANGED <<min_observations, observations_per_step, num_observations,
                   buffer_kind, buffer_client, buffer_len, num_steps, steps_done, entry>>
    /\ UNCHANGED <<dqn, dqn_result, lg, sel, pg>>

\* The other components are not touched by the generic Agent.
OthersIdle ==
    /\ dqn = 0 /\ dqn_result = 0 /\ lg = 0 /\ sel = 0 /\ pg = 0

Init ==
    /\ AgentInit
    /\ OthersIdle

Next ==
    \/ AgentObserve
    \/ UpdateBegin
    \/ UpdateStep
    \/ UpdateReturn

Spec == Init /\ [][Next]_vars

(***************************************************************************)
(* Attributes of a DQNAgent instance.                                      *)
(*                                                                         *)
(* Agent.__init__ binds the collaborators as self.actor, self.learner and  *)
(* self.buffer (agent.py:28-30); DQNAgent's methods, and DQNAgentLogger's  *)
(* add_mean_Q, read _actor, _learner and _buffer.  Attribute lookup is     *)
(* modelled as Python does it: a name that no constructor bound on the     *)
(* instance raises AttributeError at the statement that reads it.          *)
(***************************************************************************)
AgentInitAttrs ==
    {"actor", "learner", "buffer", "min_observations", "observations_per_step",
     "_num_observations"}

DQNAgentInitAttrs ==
    {"min_experiences", "Q_update_every", "n", "total_experiences", "_logger"}

InstanceAttrs == AgentInitAttrs \cup DQNAgentInitAttrs

HasAttr(name) == name \in InstanceAttrs

(***************************************************************************)
(* Logger collaborator (infrastructure/logging.py).                        *)
(*                                                                         *)
(* DQNAgent.__init__ binds self._logger = logger, or the class NullLogger  *)
(* itself (not an instance) when logger is None (dqn/agent.py:32).  A      *)
(* method looked up on a class is a plain function: the call site's        *)
(* arguments are bound starting at `self`.  Looked up on an instance, the  *)
(* instance is passed first.                                               *)
(***************************************************************************)
MaxLogged == 2      \* longest list a DQNAgentLogger accumulates in the model

LoggerArgs == {"None", "NullLogger()", "DQNAgentLogger()"}
LoggerMethods == {"add_return", "add_episode_length", "add_mean_Q",
                  "add_buffer_capacity"}

\* dqn/agent.py:32
BindLogger_Instance(arg) == IF arg = "None" THEN "NullLogger()" ELSE arg

BindLogger(arg) == IF arg = "None" THEN "NullLogger" ELSE arg

IsInstance(logger) == logger \in {"NullLogger()", "DQNAgentLogger()"}

\* Number of parameters of each method, `self` included (logging.py:10-20, 37-77).
NumParams(method) == IF method = "add_mean_Q" THEN 2 ELSE 3

\* Number of arguments written at the call site (dqn/agent.py:40, 41, 57, 58).
NumCallArgs(method) == IF method = "add_mean_Q" THEN 1 ELSE 2

\* Python's argument binding: the call raises TypeError unless the number of
\* positional arguments, the bound instance included, equals the parameters.
BindsArgs(logger, method) ==
    NumCallArgs(method) + (IF IsInstance(logger) THEN 1 ELSE 0) = NumParams(method)

\* The state of the logger object after construction.
LoggerNew(arg) ==
    [arg |-> arg, logger |-> BindLogger(arg),
     returns |-> <<>>, lengths |-> <<>>, total |-> 0, mean_Q |-> 0, files |-> {},
     last |-> [call |-> "none", outcome |-> "return"]]

\* The files a method writes, in program order (logging.py:49-53, 57-62,
\* 67-75, 79-81): open(..., 'w'/'wb') for the text and pickle files, then
\* fig.savefig for the figure.
LoggerWrites(method) ==
    CASE method = "add_return" -> <<"returns.pickle", "mean-return.pdf">>
      [] method = "add_episode_length" ->
           <<"total_experiences.txt", "episode-lengths.pickle", "episode-lengths.pdf">>
      [] method = "add_mean_Q" -> <<"mean-Q.pickle", "mean-Q.pdf">>
      [] OTHER -> <<"experience-capacity.txt">>

\* The points at which the file system may fail a call: 0 for no failure,
\* k for a failure of the k-th write of the method.
FailPoints == 0..3

\* What the method body does to a DQNAgentLogger (logging.py:37-81): the list
\* is appended to first, then the files are written one after the other.
\* When the write numbered fail_at fails, OSError leaves the method after the
\* append and after the writes before it; the files already written stay.
DQNAgentLoggerBody(l, method, x, fail_at) ==
    LET l1 == CASE method = "add_return" ->
                     [l EXCEPT !.returns = Append(@, x)]
                [] method = "add_episode_length" ->
                     [l EXCEPT !.lengths = Append(@, x), !.total = @ + x]
                [] method = "add_mean_Q" ->
                     [l EXCEPT !.mean_Q = @ + 1]
                [] OTHER -> l
        writes == LoggerWrites(method)
        fails == fail_at \in 1..Len(writes)
        done == IF fails THEN fail_at - 1 ELSE Len(writes)
        written == {writes[i] : i \in 1..done}
    IN IF method = "add_mean_Q" /\ ~HasAttr("_learner")        \* logging.py:39
       THEN [l EXCEPT !.last = [call |-> method, outcome |-> "AttributeError"]]
       ELSE [l1 EXCEPT !.files = @ \cup written,
                       !.last = [call |-> method,
                                 outcome |-> IF fails THEN "OSError" ELSE "return"]]

\* The statement `self._logger.<method>(self, ...)` as written at the call
\* sites: a bare call, with no exception handler around it, so whatever the
\* call raises leaves the statement.
LoggerCall(l, method, x, fail_at) ==
    IF ~BindsArgs(l.logger, method)
    THEN [l EXCEPT !.last = [call |-> method, outcome |-> "TypeError"]]
    ELSE IF l.logger = "DQNAgentLogger()"
    THEN DQNAgentLoggerBody(l, method, x, fail_at)
    ELSE [l EXCEPT !.last = [call |-> method, outcome |-> "return"]]   \* pass

(***************************************************************************)
(* Epsilon schedule (dqn/agent.py:52-54):                                  *)
(*     x = np.round(self.total_experiences / 1_000_000, 1)                 *)
(*     self._actor.epsilon = 1.0 - min(0.9, x)                             *)
(* np.round(., 1) multiplies by 10, rounds to the nearest integer with     *)
(* ties to the even one, and divides by 10.  In double precision the       *)
(* product is exactly k + 0.5 at the ties, so integer arithmetic gives the *)
(* same tenths.  Epsilon is in hundredths; the code's 1.0 - 0.9 is the     *)
(* double 0.09999999999999998, which is 10 here.                           *)
(***************************************************************************)
EpsDenominator == 1000000

Min(a, b) == IF a <= b THEN a ELSE b
Max(a, b) == IF a >= b THEN a ELSE b

\* Tenths of np.round(num / den, 1).
NpRoundTenths(num, den) ==
    LET q == (10 * num) \div den
        r == (10 * num) % den
    IN IF 2 * r < den THEN q
       ELSE IF 2 * r > den THEN q + 1
       ELSE IF q % 2 = 0 THEN q ELSE q + 1

\* Hundredths of 1.0 - min(0.9, x), x given in tenths.
EpsilonOf(tenths) == 100 - Min(90, 10 * tenths)

Epsilon(total_experiences) ==
    EpsilonOf(NpRoundTenths(total_experiences, EpsDenominator))

(***************************************************************************)
(* DQNAgent (dqn/agent.py).                                                *)
(***************************************************************************)
MaxMinExp == 3      \* largest min_experiences explored
MaxQEvery == 3      \* largest Q_update_every explored
MaxExp == 4         \* cap on total_experiences in the DQN state machine

\* Epsilon of the actor handed to DQNAgent.__init__, in hundredths.  The actor
\* is built by the caller and __init__ (lines 8-32) does not touch its epsilon:
\* an actor starting its exploration at 1.0, or resumed at 0.5.
ActorEpsilons == {50, 100}

\* DQNAgent.__init__ (dqn/agent.py:8-32).  The actor arrives with its own
\* Q-network reference and epsilon; the buffer may be pre-filled.
\* observe_calls is a history field, not an attribute of the agent: the number
\* of observe() calls made on the agent, whatever their outcome, since the
\* actor's Q-network was last overwritten (line 51).
DQNInit ==
    /\ dqn \in [min_experiences : 0..MaxMinExp,
                Q_update_every : 0..MaxQEvery,
                n : {0},
                total_experiences : {0},
                buffer_len : 0..MaxBuf,
                actor_Q : {"own", "learner"},
                epsilon : ActorEpsilons,
                learner_steps : {0},
                observe_calls : {0}]
    /\ lg \in {LoggerNew(arg) : arg \in LoggerArgs}
    /\ dqn_result = [call |-> "none", is_last |-> FALSE, outcome |-> "return",
                     value |-> PyNone]

\* How a call ends: with an exception, or with a return value.
Raised(d, l, call, is_last, exc) ==
    [dqn |-> d, lg |-> l,
     res |-> [call |-> call, is_last |-> is_last, outcome |-> exc, value |-> PyNone]]

Returned(d, l, call, is_last, v) ==
    [dqn |-> d, lg |-> l,
     res |-> [call |-> call, is_last |-> is_last, outcome |-> "return", value |-> v]]

\* DQNAgent.observe (dqn/agent.py:34-41), statement by statement.
DQNObserveEffect(d0, l, is_last, G, L, io) ==
    LET d == [d0 EXCEPT !.observe_calls = @ + 1]
    IN
    IF ~HasAttr("_actor") THEN Raised(d, l, "observe", is_last, "AttributeError")   \* line 36
    ELSE
      LET d1 == [d EXCEPT !.buffer_len = @ + 1,            \* line 36
                          !.n = @ + 1,                     \* line 37
                          !.total_experiences = @ + 1]     \* line 38
      IN IF ~is_last THEN Returned(d1, l, "observe", is_last, PyNone)
         ELSE LET l1 == LoggerCall(l, "add_return", G, io[1])            \* line 40
              IN IF l1.last.outcome # "return"
                 THEN Raised(d1, l1, "observe", is_last, l1.last.outcome)
                 ELSE LET l2 == LoggerCall(l1, "add_episode_length", L, io[2])  \* line 41
                      IN IF l2.last.outcome # "return"
                         THEN Raised(d1, l2, "observe", is_last, l2.last.outcome)
                         ELSE Returned(d1, l2, "observe", is_last, PyNone)

\* DQNAgent.update (dqn/agent.py:43-59), statement by statement.
DQNUpdateEffect(d, l, io) ==
    IF ~HasAttr("_buffer") THEN Raised(d, l, "update", FALSE, "AttributeError")   \* line 46
    ELSE IF d.buffer_len < d.min_experiences \/ d.n < d.Q_update_every
    THEN Returned(d, l, "update", FALSE, PyBool(FALSE))                           \* line 48
    ELSE
      LET d1 == [d EXCEPT !.learner_steps = @ + 1,                  \* line 50
                          !.actor_Q = "learner",                    \* line 51
                          !.observe_calls = 0,
                          !.epsilon = Epsilon(d.total_experiences), \* lines 53-54
                          !.n = 0]                                  \* line 55
          l1 == LoggerCall(l, "add_mean_Q", 0, io[1])               \* line 57
      IN IF l1.last.outcome # "return"
         THEN Raised(d1, l1, "update", FALSE, l1.last.outcome)
         ELSE LET l2 == LoggerCall(l1, "add_buffer_capacity", d.buffer_len, io[2])  \* line 58
              IN IF l2.last.outcome # "return"
                 THEN Raised(d1, l2, "update", FALSE, l2.last.outcome)
                 ELSE Returned(d1, l2, "update", FALSE, PyBool(TRUE))      \* line 59

DQNObserve ==
    /\ dqn.total_experiences < MaxExp /\ dqn.observe_calls < MaxExp
    /\ \E is_last \in BOOLEAN, G \in 0..1, L \in 1..2, io \in FailPoints \X FailPoints :
         LET e == DQNObserveEffect(dqn, lg, is_last, G, L, io)
         IN /\ e.dqn.buffer_len <= MaxBuf + MaxExp
            /\ Len(e.lg.returns) <= MaxLogged /\ Len(e.lg.lengths) <= MaxLogged
            /\ dqn' = e.dqn /\ lg' = e.lg /\ dqn_result' = e.res
    /\ UNCHANGED <<agentVars, sel, pg>>

DQNUpdate ==
    /\ \E io \in FailPoints \X FailPoints :
         LET e == DQNUpdateEffect(dqn, lg, io)
         IN /\ e.lg.mean_Q <= MaxLogged
            /\ dqn' = e.dqn /\ lg' = e.lg /\ dqn_result' = e.res
    /\ UNCHANGED <<agentVars, sel, pg>>

AgentIdle ==
    /\ min_observations = 0 /\ observations_per_step = OpsNone
    /\ num_observations = 0 /\ buffer_kind = "replay" /\ buffer_client = "buffer"
    /\ buffer_len = 0
    /\ pc = "idle" /\ num_steps = 0 /\ steps_done = 0
    /\ entry = [n |-> 0, len |-> 0]
    /\ result = [call |-> "none", outcome |-> "return", value |-> PyNone]

InitDQN == DQNInit /\ AgentIdle /\ sel = 0 /\ pg = 0

NextDQN == DQNObserve \/ DQNUpdate

SpecDQN == InitDQN /\ [][NextDQN]_vars

(***************************************************************************)
(* The DQNAgent late in a run: what update() does on an agent that has     *)
(* been fed half a million observations.                                   *)
(***************************************************************************)
HalfMillion == EpsDenominator \div 2

\* The agent's attributes and collaborators, the history field left out.
DQNAttrs(d) == [d EXCEPT !.observe_calls = 0]

\* k consecutive observe() calls with is_last = False on agent d with logger
\* l, call by call (dqn/agent.py:34-41).  A call that leaves every attribute
\* and the logger as they were is a call the next one repeats exactly, so the
\* remaining calls only add to the history count.
RECURSIVE DQNAfterObserves(_, _, _, _)
DQNAfterObserves(d, l, res, k) ==
    IF k = 0 THEN [dqn |-> d, lg |-> l, res |-> res]
    ELSE LET e == DQNObserveEffect(d, l, FALSE, 0, 1, <<0, 0>>)
         IN IF DQNAttrs(e.dqn) = DQNAttrs(d) /\ e.lg = l
            THEN [dqn |-> [d EXCEPT !.observe_calls = @ + k], lg |-> l, res |-> e.res]
            ELSE DQNAfterObserves(e.dqn, e.lg, e.res, k - 1)

\* A constructed agent (DQNInit) on which HalfMillion observe() calls have
\* then been made.
InitDQNLate ==
    /\ \E d \in [min_experiences : 0..MaxMinExp,
                  Q_update_every : 0..MaxQEvery,
                  n : {0},
                  total_experiences : {0},
                  buffer_len : 0..MaxBuf,
                  actor_Q : {"own", "learner"},
                  epsilon : ActorEpsilons,
                  learner_steps : {0},
                  observe_calls : {0}],
           arg \in LoggerArgs :
         LET a == DQNAfterObserves(d, LoggerNew(arg),
                                   [call |-> "none", is_last |-> FALSE,
                                    outcome |-> "return", value |-> PyNone],
                                   HalfMillion)
         IN dqn = a.dqn /\ lg = a.lg /\ dqn_result = a.res
    /\ AgentIdle /\ sel = 0 /\ pg = 0

NextDQNLate == DQNUpdate

SpecDQNLate == InitDQNLate /\ [][NextDQNLate]_vars

(***************************************************************************)
(* The logger calls on their own: the four call sites of DQNAgent, applied *)
(* to the logger that DQNAgent.__init__ bound.                             *)
(***************************************************************************)
LogCall(method, x) ==
    /\ \E fail_at \in FailPoints :
         LET l1 == LoggerCall(lg, method, x, fail_at)
         IN /\ Len(l1.returns) <= MaxLogged /\ Len(l1.lengths) <= MaxLogged
            /\ l1.mean_Q <= MaxLogged
            /\ lg' = l1
    /\ UNCHANGED <<agentVars, dqn, dqn_result, sel, pg>>

LogAddReturn == \E G \in 0..1 : LogCall("add_return", G)
LogAddEpisodeLength == \E L \in 1..2 : LogCall("add_episode_length", L)
LogAddMeanQ == LogCall("add_mean_Q", 0)
LogAddBufferCapacity == \E c \in 0..1 : LogCall("add_buffer_capacity", c)

InitLog ==
    /\ lg \in {LoggerNew(arg) : arg \in LoggerArgs}
    /\ AgentIdle /\ dqn = 0 /\ dqn_result = 0 /\ sel = 0 /\ pg = 0

NextLog == LogAddReturn \/ LogAddEpisodeLength \/ LogAddMeanQ \/ LogAddBufferCapacity

SpecLog == InitLog /\ [][NextLog]_vars

(***************************************************************************)
(* PG policy (vpg/agent.py:59-66) and FeedForwardActor.select_action       *)
(* (actors.py:40-63).  The network is opaque: its logits are any values.   *)
(* Logits are integers in units of ln 2, so that exp(logit) is the integer *)
(* 2^logit and the softmax is exact: probs[a] = weight[a] / total.         *)
(***************************************************************************)
NumActions == 4     \* policy_network.output_layer.out_features
MaxLogit == 1       \* logits range over 0..MaxLogit

Actions == 0..(NumActions - 1)

Finite(v) == [neginf |-> FALSE, v |-> v]
NegInf == [neginf |-> TRUE, v |-> 0]

LegalNone == [none |-> TRUE, set |-> {}]
LegalSet(S) == [none |-> FALSE, set |-> S]

RECURSIVE Pow2(_)
Pow2(k) == IF k = 0 THEN 1 ELSE 2 * Pow2(k - 1)

RECURSIVE SumTo(_, _)
SumTo(f, k) == IF k < 0 THEN 0 ELSE f[k] + SumTo(f, k - 1)

RECURSIVE SumOver(_, _)
SumOver(f, S) ==
    IF S = {} THEN 0
    ELSE LET a == CHOOSE x \in S : TRUE IN f[a] + SumOver(f, S \ {a})

\* vpg/agent.py:61-64: logits[illegal] = -inf, illegal = all actions not in legal.
MaskLogits_Swapped(logits, legal) ==
    [a \in Actions |->
        IF ~legal.none /\ a \in legal.set THEN NegInf ELSE Finite(logits[a])]

MaskLogits(logits, legal) ==
    [a \in Actions |->
        IF ~legal.none /\ a \notin legal.set THEN NegInf ELSE Finite(logits[a])]

\* vpg/agent.py:65: softmax.  With every logit at -inf the result is NaN.
Softmax(masked) ==
    LET w == [a \in Actions |-> IF masked[a].neginf THEN 0 ELSE Pow2(masked[a].v)]
        t == SumTo(w, NumActions - 1)
    IN [nan |-> t = 0, weight |-> w, total |-> t]

Policy(logits, legal) == Softmax(MaskLogits(logits, legal))

\* actors.py:62: torch.multinomial(probs, 1) draws an index of positive
\* probability; it raises on a distribution that is not finite.
Multinomial(probs) ==
    IF probs.nan THEN {} ELSE {a \in Actions : probs.weight[a] > 0}

\* Agent.select_action (agent.py:37-39) hands its second argument, named
\* `illegal`, to the actor's second parameter, `legal`; the actor evaluates
\* the policy and samples (actors.py:56-63).
\* sel.logits is what the network returns for the observation at hand.
SelectAction ==
    /\ \E arg \in {LegalNone} \cup {LegalSet(S) : S \in SUBSET Actions} :
         LET probs == Policy(sel.logits, arg)
         IN \/ /\ Multinomial(probs) = {}
               /\ sel' = [sel EXCEPT !.called = TRUE, !.legal = arg, !.probs = probs,
                                     !.outcome = "RuntimeError", !.action = -1]
            \/ \E a \in Multinomial(probs) :
                 sel' = [sel EXCEPT !.called = TRUE, !.legal = arg, !.probs = probs,
                                    !.outcome = "return", !.action = a]
    /\ UNCHANGED <<agentVars, dqn, dqn_result, lg, pg>>

\* Before the first call: any network, hence any logits for the observation.
InitPolicy ==
    /\ \E logits \in [Actions -> 0..MaxLogit] :
         sel = [called |-> FALSE, logits |-> logits, legal |-> LegalNone,
                probs |-> Policy(logits, LegalNone),
                outcome |-> "return", action |-> -1]
    /\ AgentIdle /\ dqn = 0 /\ dqn_result = 0 /\ lg = 0 /\ pg = 0

NextPolicy == SelectAction

SpecPolicy == InitPolicy /\ [][NextPolicy]_vars

(***************************************************************************)
(* FeedForwardActor.select_action (actors.py:40-63) with an arbitrary      *)
(* policy function.  A probability is a whole number of units, ProbUnits   *)
(* units making probability 1; the policy may return any vector, negative  *)
(* entries and vectors that do not sum to 1 included.                      *)
(***************************************************************************)
ProbUnits == 2      \* units that make probability 1

PolicyOutputs == [Actions -> (-1)..ProbUnits]

IsDistribution(w) ==
    /\ \A a \in Actions : w[a] >= 0
    /\ SumTo(w, NumActions - 1) = ProbUnits

\* torch.multinomial(probs, 1) on a 1-D tensor (actors.py:62): it raises
\* RuntimeError when an entry is negative and when the entries sum to 0 or
\* less; otherwise it draws an index of positive weight, whatever the sum.
\* The empty set stands for the RuntimeError.
MultinomialWeights(w) ==
    IF \E a \in Actions : w[a] < 0 THEN {}
    ELSE IF SumTo(w, NumActions - 1) <= 0 THEN {}
    ELSE {a \in Actions : w[a] > 0}

\* actors.py:56-63: evaluate the policy, sample, return the index.
\* sel.probs is what the policy returns for the observation at hand.
ActorSelectAction ==
    /\ \/ /\ MultinomialWeights(sel.probs) = {}
          /\ sel' = [sel EXCEPT !.called = TRUE,
                                !.outcome = "RuntimeError", !.action = -1]
       \/ \E a \in MultinomialWeights(sel.probs) :
            sel' = [sel EXCEPT !.called = TRUE,
                               !.outcome = "return", !.action = a]
    /\ UNCHANGED <<agentVars, dqn, dqn_result, lg, pg>>

\* Before the first call: any policy, hence any output for the observation.
InitActor ==
    /\ \E w \in PolicyOutputs :
         sel = [called |-> FALSE, probs |-> w, outcome |-> "return", action |-> -1]
    /\ AgentIdle /\ dqn = 0 /\ dqn_result = 0 /\ lg = 0 /\ pg = 0

NextActor == ActorSelectAction

SpecActor == InitActor /\ [][NextActor]_vars

(***************************************************************************)
(* PGLearner (agents/vpg/learning.py).  A batch is a pair of matrices of   *)
(* shape (episodes, steps): rewards and masks.  Row i holds an episode of  *)
(* some length, right-padded; mask is 1 on the episode and 0 on the        *)
(* padding, and the reward stored in the padding is whatever the buffer    *)
(* put there.  Arithmetic is exact: the discount is a fraction num/den,    *)
(* and a return is kept as its numerator over the common denominator       *)
(* Scale(discount) = den^(NumSteps-1).                                     *)
(***************************************************************************)
NumRows == 2        \* episodes in a batch
NumSteps == 3       \* time steps of a padded batch

Rows == 1..NumRows
Steps == 0..(NumSteps - 1)

RewardValues == {1, 2}      \* rewards of real time steps
PadValues == {0, 3}         \* reward stored at padded time steps
Discounts == {Frac(0, 1), Frac(1, 2), Frac(1, 1)}

\* discount ** j (learning.py:170); 0 ** 0 is 1.
RECURSIVE Pow(_, _)
Pow(b, k) == IF k = 0 THEN 1 ELSE b * Pow(b, k - 1)

\* One row of a drawn batch: an episode of length len, right-padded.
PaddedRow(len, f, pad) ==
    [mask |-> [t \in Steps |-> IF t < len THEN 1 ELSE 0],
     reward |-> [t \in Steps |-> IF t < len THEN f[t] ELSE pad]]

BatchRows(pad) ==
    {PaddedRow(len, f, pad) : len \in 0..NumSteps, f \in [Steps -> RewardValues]}

\* rewards, masks of buffer.draw (learning.py:90).
MakeBatch(rows) ==
    [rewards |-> [b \in Rows |-> rows[b].reward],
     masks |-> [b \in Rows |-> rows[b].mask]]

Batches == {MakeBatch(rows) : rows \in UNION {[Rows -> BatchRows(pad)] : pad \in PadValues}}

\* The optional argument masks: None, or a matrix.
MasksNone == [none |-> TRUE, m |-> [b \in Rows |-> [t \in Steps |-> 0]]]
MasksOf(m) == [none |-> FALSE, m |-> m]

\* torch.ones_like(rewards) (learning.py:167).
OnesLike == [b \in Rows |-> [t \in Steps |-> 1]]

Scale(discount) == Pow(discount.den, NumSteps - 1)

\* An upper-triangular variant: row i holds the powers at columns k >= i.
Toeplitz_Upper(discount) ==
    [i \in Steps |-> [k \in Steps |->
        IF i <= k
        THEN Pow(discount.num, k - i) * Pow(discount.den, NumSteps - 1 - (k - i))
        ELSE 0]]

\* learning.py:170-171: row i is [discount^i, ..., discount^0, 0, ..., 0],
\* that is toeplitz[i][k] = discount^(i-k) for k <= i and 0 for k > i.
Toeplitz(discount) ==
    [i \in Steps |-> [k \in Steps |->
        IF k <= i
        THEN Pow(discount.num, i - k) * Pow(discount.den, NumSteps - 1 - (i - k))
        ELSE 0]]

\* torch.matmul(rewards, toeplitz) (learning.py:172).
MatMul(rewards, toeplitz) ==
    [b \in Rows |-> [t \in Steps |->
        SumTo([i \in Steps |-> rewards[b][i] * toeplitz[i][t]], NumSteps - 1)]]

\* Elementwise product of two (episodes, steps) matrices.
Mul(x, y) == [b \in Rows |-> [t \in Steps |-> x[b][t] * y[b][t]]]

\* PGLearner._discounted_cumulative_returns (learning.py:166-173).
DiscountedCumulativeReturns(rewards, masks, discount) ==
    LET m == IF masks.none THEN OnesLike ELSE masks.m             \* 166-167
        discounted_returns == MatMul(rewards, Toeplitz(discount)) \* 170-172
    IN Mul(discounted_returns, m)                                 \* 173

\* ---- the function on its own: any batch, any discount, masks given or not
InitReturns ==
    /\ \E batch \in Batches, discount \in Discounts, none \in BOOLEAN :
         pg = [called |-> FALSE, rewards |-> batch.rewards,
               masks |-> IF none THEN MasksNone ELSE MasksOf(batch.masks),
               discount |-> discount,
               returns |-> [b \in Rows |-> [t \in Steps |-> 0]]]
    /\ AgentIdle /\ dqn = 0 /\ dqn_result = 0 /\ lg = 0 /\ sel = 0

ReturnsCall ==
    /\ ~pg.called
    /\ pg' = [pg EXCEPT !.called = TRUE,
                        !.returns = DiscountedCumulativeReturns(
                                       pg.rewards, pg.masks, pg.discount)]
    /\ UNCHANGED <<agentVars, dqn, dqn_result, lg, sel>>

NextReturns == ReturnsCall

SpecReturns == InitReturns /\ [][NextReturns]_vars

\* A quotient num/den of the normalisation, kept as a pair.
Quot(n, d) == [num |-> n, den |-> d]

\* torch.sum(x, dim=0)[t]: the sum down column t.
ColumnSum(x, t) == SumOver([b \in Rows |-> x[b][t]], Rows)

\* A variant whose mean is taken over all the rows of the batch.
NormalizedReturns_BatchMean(returns, masks) ==
    LET m == IF masks.none THEN OnesLike ELSE masks.m
        mr == Mul(m, returns)
    IN [b \in Rows |-> [t \in Steps |->
          Quot(mr[b][t] * NumRows - m[b][t] * ColumnSum(mr, t), NumRows)]]

\* PGLearner._normalized_returns (learning.py:208-227).  The mean of column t
\* is ColumnSum(masks*returns, t) / max(ColumnSum(masks, t), 1); the masked
\* standard deviation of lines 224-226 is computed and not used (the division
\* of line 227 is commented out).
NormalizedReturns(returns, masks) ==
    LET m == IF masks.none THEN OnesLike ELSE masks.m                  \* 208-209
        mr == Mul(m, returns)
        count == [t \in Steps |-> Max(ColumnSum(m, t), 1)]              \* 222
        masked_means == [b \in Rows |-> [t \in Steps |->                \* 221-223
                           Quot(m[b][t] * ColumnSum(mr, t), count[t])]]
    IN [b \in Rows |-> [t \in Steps |->                                 \* 227
          Quot(mr[b][t] * count[t] - masked_means[b][t].num, count[t])]]

\* ---- the function on its own: any returns matrix, masks given or not
InitNorm ==
    /\ \E batch \in Batches, none \in BOOLEAN :
         pg = [called |-> FALSE, returns |-> batch.rewards,
               masks |-> IF none THEN MasksNone ELSE MasksOf(batch.masks),
               normalized |-> [b \in Rows |-> [t \in Steps |-> Quot(0, 1)]]]
    /\ AgentIdle /\ dqn = 0 /\ dqn_result = 0 /\ lg = 0 /\ sel = 0

NormCall ==
    /\ ~pg.called
    /\ pg' = [pg EXCEPT !.called = TRUE,
                        !.normalized = NormalizedReturns(pg.returns, pg.masks)]
    /\ UNCHANGED <<agentVars, dqn, dqn_result, lg, sel>>

NextNorm == NormCall

SpecNorm == InitNorm /\ [][NextNorm]_vars

(***************************************************************************)
(* PGLearner.step (learning.py:82-111) as a whole.                         *)
(***************************************************************************)
EregValues == {0, 2}            \* config["ereg"]
ClipNone == [none |-> TRUE, max_norm |-> 0]
ClipValues == {ClipNone, [none |-> FALSE, max_norm |-> 2]}   \* config["clip_grad"]
GradNorms == {1, 3}             \* norm of the gradient left by loss.backward()

\* F.cross_entropy(..., reduction="none") (learning.py:99, 253): the negative
\* log-likelihood of the taken action at (b, t), in whole units.  It is what
\* the network makes of the observations, padding included; the network
\* under study gives 1 or 2 units depending on the position.
Nll == [b \in Rows |-> [t \in Steps |-> 1 + ((b + t) % 2)]]

\* PGLearner._episode_entropy (learning.py:253-264).
EpisodeEntropy(nll, masks) ==
    LET step_entropy == [b \in Rows |-> [t \in Steps |-> 0 - nll[b][t]]]    \* 253
        ms == Mul(masks, step_entropy)
        episode_entropy == [b \in Rows |-> SumTo(ms[b], NumSteps - 1)]      \* 262
    IN [b \in Rows |-> [t \in Steps |-> masks[b][t] * episode_entropy[b]]]  \* 263

\* torch.sum(masks) taken over every cell of the batch.
LossDivisor_All(masks) == NumRows * NumSteps

\* torch.sum(masks) (learning.py:101).
LossDivisor(masks) ==
    SumOver([b \in Rows |-> SumTo(masks[b], NumSteps - 1)], Rows)

\* A variant that clips before it measures the norm.
Optimize_ClipFirst(clip_grad, grad_norm) ==
    LET clipped == IF clip_grad.none THEN grad_norm
                   ELSE Min(grad_norm, clip_grad.max_norm)
    IN [trace |-> <<"zero_grad", "backward">>
                    \o (IF clip_grad.none THEN <<>> ELSE <<"clip_grad_norm_">>)
                    \o <<"total_norm", "optimizer.step", "scheduler.step">>,
        total_norm |-> clipped,
        applied_norm |-> clipped]

\* learning.py:104-111: the calls made on the optimizer, the gradients and
\* the scheduler, in program order; total_norm is the norm measured at lines
\* 106-107 and applied_norm the norm of the gradient the optimizer applies.
\* clip_grad_norm_ rescales the gradient to max_norm when its norm is larger.
Optimize(clip_grad, grad_norm) ==
    [trace |-> <<"zero_grad", "backward", "total_norm">>                   \* 104-107
                 \o (IF clip_grad.none THEN <<>> ELSE <<"clip_grad_norm_">>)  \* 108-109
                 \o <<"optimizer.step", "scheduler.step">>,                \* 110-111
     total_norm |-> grad_norm,
     applied_norm |-> IF clip_grad.none THEN grad_norm
                      ELSE Min(grad_norm, clip_grad.max_norm)]

\* Marker for a norm that is NaN (a NaN loss leaves NaN gradients).
NaNNorm == -1

NoQuots == [b \in Rows |-> [t \in Steps |-> Quot(0, 1)]]
NoInts == [b \in Rows |-> [t \in Steps |-> 0]]

\* PGLearner.step (learning.py:90-111).  shape_ok = FALSE stands for a batch
\* whose masks have one more column than its rewards: the elementwise product
\* of line 173 then raises torch's RuntimeError.  A batch whose masks are all
\* zero goes through: the loss is 0/0 = NaN and the optimizer still steps.
StepEffect(p, grad_norm) ==
    IF ~p.shape_ok
    THEN [p EXCEPT !.called = TRUE, !.outcome = "RuntimeError"]             \* 94 (173)
    ELSE
      LET masks == p.masks
          returns == DiscountedCumulativeReturns(p.rewards, MasksOf(masks),
                                                 p.discount)                \* 94
          entropy == EpisodeEntropy(Nll, masks)
          q_values == [b \in Rows |-> [t \in Steps |->                      \* 95
                         returns[b][t]
                           - (p.ereg \div 2) * Scale(p.discount) * entropy[b][t]]]
          normalized == NormalizedReturns(q_values, MasksOf(masks))         \* 96
          weighted_nll == [b \in Rows |-> [t \in Steps |->                  \* 99-100
                             Quot(masks[b][t] * Nll[b][t] * normalized[b][t].num,
                                  normalized[b][t].den)]]
          divisor == LossDivisor(masks)                                     \* 101
          opt == Optimize(p.clip_grad, grad_norm)                           \* 104-111
      IN [p EXCEPT !.called = TRUE, !.outcome = "return",
                   !.returns = returns, !.q_values = q_values,
                   !.normalized = normalized, !.weighted_nll = weighted_nll,
                   !.divisor = divisor, !.loss_nan = (divisor = 0),
                   !.trace = opt.trace,
                   !.total_norm = IF divisor = 0 THEN NaNNorm ELSE opt.total_norm,
                   !.applied_norm = IF divisor = 0 THEN NaNNorm ELSE opt.applied_norm,
                   !.grad_norm = grad_norm,
                   !.params = IF divisor = 0 THEN "nan" ELSE "updated"]

\* The batches a step is run on: episodes whose reward is the same at every
\* step, of any length, right-padded.
ConstantRows(pad) ==
    {PaddedRow(len, [t \in Steps |-> r], pad) : len \in 0..NumSteps, r \in RewardValues}

StepBatches ==
    {MakeBatch(rows) : rows \in UNION {[Rows -> ConstantRows(pad)] : pad \in PadValues}}

\* A learner with some configuration and a buffer about to be drawn.
StepInput(batch, shape_ok, discount, ereg, clip_grad) ==
    [called |-> FALSE, outcome |-> "none",
     rewards |-> batch.rewards, masks |-> batch.masks, shape_ok |-> shape_ok,
     discount |-> discount, ereg |-> ereg, clip_grad |-> clip_grad,
     returns |-> NoInts, q_values |-> NoInts, normalized |-> NoQuots,
     weighted_nll |-> NoQuots, divisor |-> 0, loss_nan |-> FALSE,
     trace |-> <<>>, total_norm |-> 0, applied_norm |-> 0, grad_norm |-> 0,
     params |-> "initial"]

InitStep ==
    /\ \E batch \in StepBatches, shape_ok \in BOOLEAN, discount \in Discounts,
          ereg \in EregValues, clip_grad \in ClipValues :
         /\ ~shape_ok => batch.masks = OnesLike /\ discount = Frac(1, 1)
         /\ pg = StepInput(batch, shape_ok, discount, ereg, clip_grad)
    /\ AgentIdle /\ dqn = 0 /\ dqn_result = 0 /\ lg = 0 /\ sel = 0

Step ==
    /\ ~pg.called
    /\ \E grad_norm \in GradNorms : pg' = StepEffect(pg, grad_norm)
    /\ UNCHANGED <<agentVars, dqn, dqn_result, lg, sel>>

NextStep == Step

SpecStep == InitStep /\ [][NextStep]_vars

(***************************************************************************)
(* Claims about the generic Agent, checked under Spec.                     *)
(***************************************************************************)

\* The state right after a completed update() call.
UpdateReturned ==
    pc = "idle" /\ result.call = "update" /\ result.outcome = "return"

\* C1: _calc_num_steps returns 0 while len(buffer) < min_observations;
\* otherwise 1 when observations_per_step is None; otherwise, for a positive
\* observations_per_step, floor(counter / observations_per_step), i.e. the
\* unique k with k * ops <= counter < (k + 1) * ops.
C1_CalcNumSteps ==
    pc = "loop" =>
        LET ops == observations_per_step
        IN /\ entry.len < min_observations => num_steps = 0
           /\ (entry.len >= min_observations /\ ops.none) => num_steps = 1
           /\ (entry.len >= min_observations /\ ~ops.none /\ ops.num > 0) =>
                 /\ num_steps * ops.num <= entry.n * ops.den
                 /\ entry.n * ops.den < (num_steps + 1) * ops.num

\* The example of the claim: min_observations=5, observations_per_step=2,
\* 7 observations, a warm buffer: 3 steps.
C1_Witness ==
    /\ pc = "loop" /\ steps_done = 0
    /\ min_observations = 5 /\ entry.len >= 5
    /\ observations_per_step = Frac(2, 1)
    /\ entry.n = 7 /\ num_steps = 3

\* C2: update() invokes Learner.step exactly num_steps times, num_steps being
\* fixed on entry; the counter is 0 after every invocation, so it is 0 after an
\* update() that ran a step and unchanged after an update() that ran none.
C2_UpdateSteps ==
    /\ pc = "loop" => steps_done <= num_steps
    /\ (pc = "loop" /\ steps_done > 0) => num_observations = 0
    /\ UpdateReturned =>
          /\ steps_done = num_steps
          /\ num_steps = CalcNumSteps(entry.len, min_observations,
                                      observations_per_step, entry.n).steps
          /\ steps_done > 0 => num_observations = 0
          /\ steps_done = 0 => num_observations = entry.n

\* An update() that drained a backlog in three steps.
C2_Witness ==
    UpdateReturned /\ steps_done = 3 /\ entry.n > 0 /\ num_observations = 0

\* C3 as stated: update() returns the number of Learner steps it performed.
C3_ReturnsStepCount ==
    UpdateReturned => result.value = PyInt(steps_done)

\* C3 as amended: update() returns None in every case; the number of steps it
\* performed is num_steps, which is 0 while the buffer is warming up.
C3_ReturnsNone ==
    UpdateReturned =>
        /\ result.value = PyNone
        /\ steps_done = num_steps
        /\ entry.len < min_observations => steps_done = 0

C3_Witness ==
    UpdateReturned /\ steps_done >= 1 /\ result.value = PyNone

\* C16: every Learner.step(buffer) of an update(), the second and later ones
\* included, is invoked while len(buffer) >= min_observations.
C16_StepsOnWarmBuffer ==
    [][steps_done' = steps_done + 1 => buffer_len >= min_observations]_vars

\* C20: with observations_per_step = 0 and len(buffer) >= min_observations,
\* update() fails with ZeroDivisionError before any Learner step and leaves the
\* counter as it was; in every other case update() gets past _calc_num_steps,
\* so an update() that returned had observations_per_step None or non-zero, or
\* a buffer below min_observations.
C20_ZeroObservationsPerStep ==
    [][(pc = "idle" /\ (pc' = "loop" \/ result'.outcome = "ZeroDivisionError")) =>
         LET zero == /\ ~observations_per_step.none
                     /\ observations_per_step.num = 0
                     /\ buffer_len >= min_observations
         IN /\ zero => /\ pc' = "idle"
                       /\ result'.call = "update"
                       /\ result'.outcome = "ZeroDivisionError"
                       /\ num_observations' = num_observations
                       /\ steps_done' = steps_done
                       /\ buffer_len' = buffer_len
            /\ ~zero => /\ pc' = "loop"
                        /\ \/ observations_per_step.none
                           \/ observations_per_step.num # 0
                           \/ entry'.len < min_observations]_vars

\* The default configuration (min_observations = 0, observations_per_step = 0)
\* after some observations: update() has just failed.
C20_Witness ==
    /\ result.call = "update" /\ result.outcome = "ZeroDivisionError"
    /\ min_observations = 0 /\ observations_per_step = Frac(0, 1)
    /\ num_observations > 0 /\ pc = "idle"

(***************************************************************************)
(* Claims about DQNAgent, checked under SpecDQN.                           *)
(***************************************************************************)

\* C4: update() returns False and changes nothing unless len(buffer) >=
\* min_experiences and n >= Q_update_every; when both hold it performs exactly
\* one Learner step, resets n to 0 and returns True.
C4_GatedUpdate ==
    [][dqn_result'.call = "update" =>
         LET open == /\ dqn.buffer_len >= dqn.min_experiences
                     /\ dqn.n >= dqn.Q_update_every
         IN /\ dqn_result'.outcome = "return"
            /\ ~open => /\ dqn_result'.value = PyBool(FALSE)
                        /\ dqn' = dqn
                        /\ lg' = lg
            /\ open => /\ dqn_result'.value = PyBool(TRUE)
                       /\ dqn'.learner_steps = dqn.learner_steps + 1
                       /\ dqn'.n = 0]_vars

\* C5: every observe() forwards the transition to the actor and increments n
\* and total_experiences by exactly 1; with is_last it then reports the return
\* and the episode length to the logger, without is_last it calls no logger.
C5_ObserveCounts ==
    [][dqn_result'.call = "observe" =>
         /\ dqn'.buffer_len = dqn.buffer_len + 1
         /\ dqn'.n = dqn.n + 1
         /\ dqn'.total_experiences = dqn.total_experiences + 1
         /\ dqn_result'.is_last => lg'.last.call = "add_episode_length"
         /\ ~dqn_result'.is_last => lg' = lg]_vars

\* C18: an update() that performs a Learner step leaves the actor's Q-network
\* reference equal to the learner's, and after any update() called with
\* Q_update_every >= 1 on a buffer holding at least min_experiences, fewer than
\* Q_update_every observe() calls have been made since the actor's Q-network
\* was last overwritten (so in an observe/update loop the count never exceeds
\* Q_update_every).
C18_ActorNetworkFresh ==
    (dqn_result.call = "update" /\ dqn.Q_update_every >= 1
        /\ dqn.buffer_len >= dqn.min_experiences)
      => /\ dqn.observe_calls < dqn.Q_update_every
         /\ dqn.learner_steps > 0 => dqn.actor_Q = "learner"

\* C15: select_action fails with InvalidDistributionError, returning no action,
\* whenever the policy's output has a negative entry or does not sum to 1;
\* otherwise it returns an index of the distribution's support.
C15_InvalidDistributionRejected ==
    sel.called =>
      IF IsDistribution(sel.probs)
      THEN sel.outcome = "return" /\ sel.action \in Actions
           /\ sel.probs[sel.action] > 0
      ELSE sel.outcome = "InvalidDistributionError" /\ sel.action = -1

\* C11: with no padding (masks not given) the returns obey the backward
\* recursion R[T-1] = r[T-1], R[t] = r[t] + g*R[t+1], in every row.
\* With g = num/den and returns kept over Scale(g), the recursion reads
\* den*R[t] = den*Scale*r[t] + num*R[t+1].
C11_RewardToGo ==
    (pg.called /\ pg.masks.none) =>
      \A b \in Rows, t \in Steps :
        IF t = NumSteps - 1
        THEN pg.returns[b][t] = Scale(pg.discount) * pg.rewards[b][t]
        ELSE pg.discount.den * pg.returns[b][t]
               = pg.discount.den * Scale(pg.discount) * pg.rewards[b][t]
                 + pg.discount.num * pg.returns[b][t + 1]

\* Discount 1/2, two rows with different rewards: R[0] = 1 + 2/2 + 1/4 in one
\* row and 2 + 1/2 + 2/4 in the other (numerators over 4).
C11_Witness ==
    /\ pg.called /\ pg.masks.none /\ pg.discount = Frac(1, 2)
    /\ \E b, c \in Rows :
         /\ pg.rewards[b] = [t \in Steps |-> IF t = 1 THEN 2 ELSE 1]
         /\ pg.returns[b][0] = 4 + 4 + 1
         /\ pg.rewards[c] = [t \in Steps |-> IF t = 1 THEN 1 ELSE 2]
         /\ pg.returns[c][0] = 8 + 2 + 2

\* C19: with masks given, the return at an active position is the same as for
\* the batch that agrees on the active positions and stores 0 in the padding,
\* hence the same for any two batches that differ only in the padding.
C19_PaddedRewardsIgnored ==
    (pg.called /\ ~pg.masks.none) =>
      LET clean == Mul(pg.rewards, pg.masks.m)
          ref == DiscountedCumulativeReturns(clean, pg.masks, pg.discount)
      IN \A b \in Rows, t \in Steps :
           pg.masks.m[b][t] = 1 => pg.returns[b][t] = ref[b][t]

\* C13: at every time step t the normalised return of an active row is its
\* return minus the mean return of the rows active at t (nothing else, and in
\* particular no division by a standard deviation), so the normalised returns
\* of the active rows sum to 0 and the values stored in finished rows play no
\* part; finished rows get 0; a time step with no active row is all zeros with
\* divisor max(0, 1) = 1.
C13_MaskedMeanBaseline ==
    pg.called =>
      \A t \in Steps :
        LET active == {b \in Rows : pg.masks.none \/ pg.masks.m[b][t] = 1}
            n == Cardinality(active)
            total == SumOver([b \in Rows |-> pg.returns[b][t]], active)
        IN /\ \A b \in active :
                /\ pg.normalized[b][t].den = n
                /\ pg.normalized[b][t].num = n * pg.returns[b][t] - total
           /\ SumOver([b \in Rows |-> pg.normalized[b][t].num], active) = 0
           /\ \A b \in Rows \ active : pg.normalized[b][t].num = 0
           /\ \A b \in Rows : pg.normalized[b][t].den >= 1
           /\ active = {} => \A b \in Rows : pg.normalized[b][t] = Quot(0, 1)

\* Masks given; at step 0 two rows are active with returns 1 and 2 (normalised
\* to -1/2 and 1/2), at step 1 one of them has finished with 3 stored in its
\* padding, and at step 2 no row is active.
C13_Witness ==
    /\ pg.called /\ ~pg.masks.none
    /\ \E b, c \in Rows :
         /\ pg.masks.m[b][0] = 1 /\ pg.masks.m[c][0] = 1
         /\ pg.normalized[b][0] = Quot(-1, 2) /\ pg.normalized[c][0] = Quot(1, 2)
         /\ pg.masks.m[b][1] = 1 /\ pg.masks.m[c][1] = 0 /\ pg.returns[c][1] = 3
         /\ pg.normalized[b][1] = Quot(0, 1)
    /\ \A b \in Rows : pg.masks.m[b][2] = 0

\* Position of a call in the trace of a step, 0 when it was not made.
TracePositions(op) == {i \in 1..Len(pg.trace) : pg.trace[i] = op}
TracePos(op) == IF TracePositions(op) = {} THEN 0 ELSE CHOOSE i \in TracePositions(op) : TRUE

\* C12: after a step, every padded entry (mask 0) has return 0 after masking,
\* 0 after the entropy term and after normalisation, and contributes 0 to the
\* loss numerator; the loss divisor is the number of mask = 1 entries.
C12_PaddingIsInert ==
    (pg.called /\ pg.outcome = "return") =>
      /\ \A b \in Rows, t \in Steps :
           pg.masks[b][t] = 0 =>
             /\ pg.returns[b][t] = 0
             /\ pg.q_values[b][t] = 0
             /\ pg.normalized[b][t].num = 0
             /\ pg.weighted_nll[b][t].num = 0
      /\ pg.divisor = Cardinality({c \in Rows \X Steps : pg.masks[c[1]][c[2]] = 1})

\* A step on a batch with a padded row that stores reward 3 in its padding,
\* entropy regularisation switched on, 4 active entries out of 6.
C12_Witness ==
    /\ pg.called /\ pg.outcome = "return" /\ pg.ereg = 2
    /\ pg.divisor = 4
    /\ \E b \in Rows : /\ pg.masks[b][0] = 1 /\ pg.masks[b][NumSteps - 1] = 0
                        /\ pg.rewards[b][NumSteps - 1] = 3
                        /\ pg.weighted_nll[b][0].num # 0

\* C14: a step on a malformed batch (shapes that do not match, or masks that
\* are all zero) fails with BatchShapeError, makes no optimizer step and
\* leaves the parameters as they were.
C14_MalformedBatchRejected ==
    (pg.called /\ (~pg.shape_ok \/ pg.masks = NoInts)) =>
      /\ pg.outcome = "BatchShapeError"
      /\ TracePositions("optimizer.step") = {}
      /\ pg.params = "initial"

\* C17: a step that completes makes each of zero_grad, backward, the norm
\* measurement, optimizer.step and scheduler.step exactly once and in that
\* order; clip_grad_norm_ is called once, between the norm measurement and
\* optimizer.step, when clip_grad is configured and not at all otherwise; the
\* norm reported is the norm of the gradient before clipping.
C17_OptimisationOrder ==
    (pg.called /\ pg.outcome = "return") =>
      /\ \A op \in {"zero_grad", "backward", "total_norm",
                     "optimizer.step", "scheduler.step"} :
           Cardinality(TracePositions(op)) = 1
      /\ Cardinality(TracePositions("clip_grad_norm_"))
           = IF pg.clip_grad.none THEN 0 ELSE 1
      /\ TracePos("zero_grad") < TracePos("backward")
      /\ TracePos("backward") < TracePos("total_norm")
      /\ TracePos("total_norm") < TracePos("optimizer.step")
      /\ TracePos("optimizer.step") < TracePos("scheduler.step")
      /\ ~pg.clip_grad.none =>
           /\ TracePos("total_norm") < TracePos("clip_grad_norm_")
           /\ TracePos("clip_grad_norm_") < TracePos("optimizer.step")
      /\ Len(pg.trace) = IF pg.clip_grad.none THEN 5 ELSE 6
      /\ ~pg.loss_nan => pg.total_norm = pg.grad_norm

\* A step with clip_grad = 2 on a gradient of norm 3: the norm reported is
\* 3 and the optimizer applies a gradient of norm 2.
C17_Witness ==
    /\ pg.called /\ pg.outcome = "return" /\ ~pg.loss_nan
    /\ ~pg.clip_grad.none /\ pg.clip_grad.max_norm = 2
    /\ pg.grad_norm = 3 /\ pg.total_norm = 3 /\ pg.applied_norm = 2
    /\ Len(pg.trace) = 6

(***************************************************************************)
(* Claims about the epsilon schedule of DQNAgent.update, checked under     *)
(* SpecDQN and SpecDQNLate.                                                *)
(***************************************************************************)

C8_LoggerFailureContained ==
    (lg.logger = "DQNAgentLogger()" /\ lg.last.call # "none") =>
        lg.last.outcome = "return"

\* C9: with logger=None the default logger is a no-op: each of the four
\* logging calls completes without raising and without any effect.
C9_DefaultLoggerNoop ==
    (lg.arg = "None" /\ lg.last.call # "none") =>
        /\ lg.last.outcome = "return"
        /\ lg.returns = <<>> /\ lg.lengths = <<>> /\ lg.files = {}

(***************************************************************************)
(* Claims about the PG policy, checked under SpecPolicy.                   *)
(***************************************************************************)

\* C10: for every network output and every non-empty legal set the policy
\* gives probability 0 to every action outside the set and positive
\* probabilities summing to 1 over the set, and select_action returns an
\* action of the set.
C10_IllegalActionsMasked ==
    (sel.called /\ ~sel.legal.none /\ sel.legal.set # {}) =>
        /\ sel.outcome = "return"
        /\ \A a \in Actions \ sel.legal.set : sel.probs.weight[a] = 0
        /\ \A a \in sel.legal.set : sel.probs.weight[a] > 0
        /\ sel.probs.total > 0
        /\ SumOver(sel.probs.weight, sel.legal.set) = sel.probs.total
        /\ sel.action \in sel.legal.set

\* legal = [0, 2] out of 4 actions, unequal logits, action 2 drawn.
C10_Witness ==
    /\ sel.called /\ sel.outcome = "return"
    /\ sel.legal = LegalSet({0, 2})
    /\ sel.logits[0] # sel.logits[2]
    /\ sel.probs.weight[1] = 0 /\ sel.probs.weight[3] = 0
    /\ sel.action = 2

====
